---- MODULE Spec2Model ----
(***************************************************************************)
(* The userland syscall layer of libtock-rs (src/syscalls/mod.rs): the     *)
(* primitive calls command, command1_insecure, subscribe, subscribe_fn,    *)
(* allow and raw::yieldk, the two handles subscribe and allow return, and  *)
(* the kernel slots the raw traps act on.                                  *)
(***************************************************************************)
EXTENDS Integers, Sequences, FiniteSets, TLC

\* ------------------------------------------------------------------ bounds
\* Handles created in one run, and nesting of yield and callback frames.
MaxHandles == 2
MaxDepth == 4

\* Callback invocations the captured states count in one run.
MaxCalls == 2

\* The (driver, number) pairs the application uses.
Pairs == {<<1, 0>>, <<2, 3>>}

\* Callback objects of the process (values of one type CB) and its buffers.
Callbacks == {1, 2}
Buffers == {1, 2}

\* The callback objects with Fn behaviour: their captured state sits in a
\* re-entrant-safe cell. The others update it through the exclusive borrow
\* call_rust receives, which a nested invocation violates.
FnBehavior == {1}

\* isize status values a raw trap can return: negative, zero, positive.
ReturnCodes == {-1, 0, 1}

\* Status values a clearing trap (unregister, reclaim) can return.
ReleaseCodes == {-1, 0}

\* Raw argument words of the commands.
Words == {0, 1}

\* The three event words the kernel passes to a callback.
Events == {<<7, 8, 9>>}

\* Context words the application passes to subscribe_fn with its own fn.
UserData == {5}

\* ------------------------------------------------- addresses and pointers
\* `callback as *mut CB as usize`: the address of a callback object.
callback_addr(cb) == 16 * cb

\* `&mut *(data as *mut CB)`: the callback object a context word points at.
callback_beside(data) == CHOOSE cb \in Callbacks : callback_addr(cb) # data

callback_at(data) == CHOOSE cb \in Callbacks : callback_addr(cb) = data

\* `buffer_to_share.as_mut_ptr()` and `buffer_to_share.len()`: buffer 1 is
\* the empty slice, buffer 2 has ten bytes.
as_mut_ptr(b) == 64 + 16 * b
len(b) == 10 * (b - 1)

\* Function pointers: the null pointer, the trampoline c_callback::<CB>,
\* and an extern "C" fn of the application passed to subscribe_fn.
NULL_FN == 0
c_callback == 1
user_fn == 2

\* --------------------------------------------------------------- state
VARIABLES
    slot,       \* kernel: [Pairs -> registration] of the subscribe slots
    owner,      \* history: the handle (index in subs) whose subscribe call
                \* stored the slot's registration; 0 when there is none
    region,     \* kernel: [Pairs -> allowed region] of the allow slots
    subs,       \* every CallbackSubscription created, by creation order
    mems,       \* every SharedMemory created, by creation order
    stack,      \* the process's position: nested yield and callback frames
    captured,   \* [Callbacks -> the invocations its captured state counts]
    last_call   \* the last call of the layer: arguments, trap, result

vars == <<slot, owner, region, subs, mems, stack, captured, last_call>>

NoRegistration == [fn |-> NULL_FN, data |-> 0]
NoRegion == [ptr |-> 0, len |-> 0]

\* ---------------------------------------------------------- raw traps
\* The request a raw trap carries, before the kernel answers it.
Trap(verb, driver, number, a3, a4) ==
    [verb |-> verb, driver |-> driver, number |-> number, a3 |-> a3, a4 |-> a4]

Answered(trap, status) ==
    [verb |-> trap.verb, driver |-> trap.driver, number |-> trap.number,
     a3 |-> trap.a3, a4 |-> trap.a4, status |-> status]

\* raw::subscribe in the kernel: status 0 stores the function pointer and
\* the context word in the slot (a null pointer clears it); a failed
\* registration is not retained; a failed clear leaves the slot in an
\* unknown state (kept or cleared, `cleared` choosing).
kernel_subscribe(s, trap, status, cleared) ==
    LET p == <<trap.driver, trap.number>> IN
    IF p \notin DOMAIN s THEN s
    ELSE IF status = 0
         THEN [s EXCEPT ![p] = IF trap.a3 = NULL_FN THEN NoRegistration
                               ELSE [fn |-> trap.a3, data |-> trap.a4]]
    ELSE IF trap.a3 = NULL_FN /\ cleared THEN [s EXCEPT ![p] = NoRegistration]
    ELSE s

\* raw::allow in the kernel: status 0 gives the driver the region (a
\* zero-length or null buffer relinquishes access); a failed allow
\* transfers nothing; a failed reclaim leaves the slot in an unknown state.
kernel_allow(r, trap, status, cleared) ==
    LET p == <<trap.driver, trap.number>> IN
    IF p \notin DOMAIN r THEN r
    ELSE IF status = 0
         THEN [r EXCEPT ![p] = IF trap.a4 = 0 \/ trap.a3 = 0 THEN NoRegion
                               ELSE [ptr |-> trap.a3, len |-> trap.a4]]
    ELSE IF trap.a4 = 0 /\ cleared THEN [r EXCEPT ![p] = NoRegion]
    ELSE r

\* The mock trap layer of the round trip: it tracks the currently allowed
\* regions, accepts every relinquish, and rejects an allow whose bytes
\* overlap a region it still holds.
tracking_allow(r, trap) ==
    IF trap.a4 = 0 \/ trap.a3 = 0 THEN 0
    ELSE IF \E p \in DOMAIN r :
              /\ r[p].len > 0
              /\ trap.a3 < r[p].ptr + r[p].len
              /\ r[p].ptr < trap.a3 + trap.a4
         THEN -1
    ELSE 0

\* ------------------------------------------------ the primitive call layer
\* subscribe_fn: forwards its four arguments to raw::subscribe.
subscribe_fn_swapped(driver_number, subscribe_number, callback, userdata) ==
    Trap("subscribe", subscribe_number, driver_number, callback, userdata)

subscribe_fn(driver_number, subscribe_number, callback, userdata) ==
    Trap("subscribe", driver_number, subscribe_number, callback, userdata)

\* CallbackSubscription::new(driver_number, subscribe_number)
CallbackSubscription_new(driver_number, subscribe_number) ==
    [driver_number |-> driver_number, subscribe_number |-> subscribe_number]

\* subscribe: the trap it issues ...
subscribe_trap_fixed(driver_number, subscribe_number, callback) ==
    subscribe_fn(1, 0, c_callback, callback_addr(callback))

subscribe_trap(driver_number, subscribe_number, callback) ==
    subscribe_fn(driver_number, subscribe_number, c_callback,
                 callback_addr(callback))

\* ... and the result it makes of the return code.
subscribe_result_swapped(driver_number, subscribe_number, return_code) ==
    IF return_code = 0
    THEN [tag |-> "Ok",
          handle |-> CallbackSubscription_new(subscribe_number, driver_number)]
    ELSE [tag |-> "Err", code |-> return_code]

subscribe_result_nonneg(driver_number, subscribe_number, return_code) ==
    IF return_code >= 0
    THEN [tag |-> "Ok",
          handle |-> CallbackSubscription_new(driver_number, subscribe_number)]
    ELSE [tag |-> "Err", code |-> return_code]

subscribe_result(driver_number, subscribe_number, return_code) ==
    IF return_code = 0
    THEN [tag |-> "Ok",
          handle |-> CallbackSubscription_new(driver_number, subscribe_number)]
    ELSE [tag |-> "Err", code |-> return_code]

\* SharedMemory::new(driver_number, allow_number, buffer_to_share)
SharedMemory_new(driver_number, allow_number, buffer_to_share) ==
    [driver_number |-> driver_number, allow_number |-> allow_number,
     buffer_to_share |-> buffer_to_share]

\* allow: the trap it issues ...
allow_trap(driver_number, allow_number, buffer_to_share) ==
    Trap("allow", driver_number, allow_number,
         as_mut_ptr(buffer_to_share), len(buffer_to_share))

\* ... and the result it makes of the return code.
allow_result_unless_empty(driver_number, allow_number, buffer_to_share, return_code) ==
    IF return_code = 0 /\ len(buffer_to_share) > 0
    THEN [tag |-> "Ok",
          handle |-> SharedMemory_new(driver_number, allow_number, buffer_to_share)]
    ELSE [tag |-> "Err", code |-> return_code]

allow_result_swapped(driver_number, allow_number, buffer_to_share, return_code) ==
    IF return_code = 0
    THEN [tag |-> "Ok",
          handle |-> SharedMemory_new(allow_number, driver_number, buffer_to_share)]
    ELSE [tag |-> "Err", code |-> return_code]

allow_result_nonneg(driver_number, allow_number, buffer_to_share, return_code) ==
    IF return_code >= 0
    THEN [tag |-> "Ok",
          handle |-> SharedMemory_new(driver_number, allow_number, buffer_to_share)]
    ELSE [tag |-> "Err", code |-> return_code]

allow_result(driver_number, allow_number, buffer_to_share, return_code) ==
    IF return_code = 0
    THEN [tag |-> "Ok",
          handle |-> SharedMemory_new(driver_number, allow_number, buffer_to_share)]
    ELSE [tag |-> "Err", code |-> return_code]

\* command and command1_insecure: the trap, and the status returned as is.
command_trap(driver_number, command_number, arg1, arg2) ==
    Trap("command", driver_number, command_number, arg1, arg2)

\* command1 sets one argument register; the second keeps what it held.
command1_trap(driver_number, command_number, arg, leaked) ==
    Trap("command1", driver_number, command_number, arg, leaked)

command_result_checked(return_code) ==
    [tag |-> IF return_code = 0 THEN "Ok" ELSE "Err", code |-> return_code]

command_result(return_code) == [tag |-> "Raw", code |-> return_code]

\* ------------------------------------------------------------ the handles
\* Release of a CallbackSubscription: the raw subscribe trap for the
\* handle's pair with the null function pointer and the null context.
unregister_trap(h) ==
    Trap("subscribe", h.driver_number, h.subscribe_number, NULL_FN, 0)

\* Release of a SharedMemory: the raw allow trap for the handle's pair with
\* the null pointer and length 0.
reclaim_trap(h) ==
    Trap("allow", h.driver_number, h.allow_number, 0, 0)

\* An explicit unregister/reclaim returns the trap's status; a release at
\* scope exit returns nothing.
release_result(explicit, status) ==
    IF explicit THEN [tag |-> "Raw", code |-> status] ELSE [tag |-> "Unit"]

\* The state a handle is left in by its release, whatever the status.
released_state_unless_failed(live_state, status) ==
    IF status # 0 THEN live_state
    ELSE IF live_state = "Subscribed" THEN "Unregistered" ELSE "Reclaimed"

released_state(live_state, status) ==
    IF live_state = "Subscribed" THEN "Unregistered" ELSE "Reclaimed"

\* --------------------------------------------------------------- helpers
LiveSubs == {i \in DOMAIN subs : subs[i].state = "Subscribed"}
LiveMems == {i \in DOMAIN mems : mems[i].state = "Allowed"}

\* The buffers mutably borrowed by a live SharedMemory: the borrow checker
\* lets no other code use them.
Borrowed == {mems[i].handle.buffer_to_share : i \in LiveMems}

\* No restriction on where the process is.
AtAnyInstruction == TRUE

\* The process is blocked inside raw::yieldk: the kernel has the control.
InYield == IF stack = <<>> THEN FALSE ELSE stack[Len(stack)].kind = "yield"

\* The process runs its own code: it is not blocked inside a yield.
Running == IF stack = <<>> THEN TRUE ELSE stack[Len(stack)].kind = "callback"

Call(op, args, traps, result) ==
    [op |-> op, args |-> args, traps |-> traps, result |-> result]

Released(status) == IF status = 0 THEN "ok" ELSE "failed"

\* ------------------------------------------------------------------ Init
Init ==
    /\ slot = [p \in Pairs |-> NoRegistration]
    /\ owner = [p \in Pairs |-> 0]
    /\ region = [p \in Pairs |-> NoRegion]
    /\ subs = <<>>
    /\ mems = <<>>
    /\ stack = <<>>
    /\ captured = [cb \in Callbacks |-> 0]
    /\ last_call = Call("none", <<>>, <<>>, [tag |-> "Unit"])

\* --------------------------------------------------------------- actions
subscribe ==
    \E p \in Pairs, cb \in Callbacks, return_code \in ReturnCodes :
      LET trap == subscribe_trap(p[1], p[2], cb)
          res == subscribe_result(p[1], p[2], return_code)
      IN  /\ Running
          /\ res.tag = "Ok" => Len(subs) + Len(mems) < MaxHandles
          /\ slot' = kernel_subscribe(slot, trap, return_code, FALSE)
          /\ owner' = IF return_code # 0 THEN owner
                      ELSE [owner EXCEPT ![p] = IF res.tag = "Ok"
                                                THEN Len(subs) + 1 ELSE 0]
          /\ subs' = IF res.tag = "Ok"
                     THEN Append(subs,
                                 [handle |-> res.handle, state |-> "Subscribed",
                                  pair |-> p, callback |-> cb,
                                  traps |-> 0, released |-> "no"])
                     ELSE subs
          /\ last_call' = Call("subscribe", <<p[1], p[2], cb>>,
                               <<Answered(trap, return_code)>>, res)
          /\ UNCHANGED <<region, mems, stack, captured>>

\* A direct call of subscribe_fn with an extern "C" fn of the application
\* (the trampoline is private to subscribe); it returns the raw status.
subscribe_fn_call ==
    \E p \in Pairs, userdata \in UserData, return_code \in ReturnCodes :
      LET trap == subscribe_fn(p[1], p[2], user_fn, userdata) IN
          /\ Running
          /\ slot' = kernel_subscribe(slot, trap, return_code, FALSE)
          /\ owner' = IF return_code # 0 THEN owner ELSE [owner EXCEPT ![p] = 0]
          /\ last_call' = Call("subscribe_fn", <<p[1], p[2], userdata>>,
                               <<Answered(trap, return_code)>>,
                               command_result(return_code))
          /\ UNCHANGED <<region, subs, mems, stack, captured>>

\* allow(p[1], p[2], b), the raw allow trap returning return_code.
allow_call(p, b, return_code) ==
    LET trap == allow_trap(p[1], p[2], b)
        res == allow_result(p[1], p[2], b, return_code)
    IN  /\ Running
        /\ res.tag = "Ok" => Len(subs) + Len(mems) < MaxHandles
        /\ region' = kernel_allow(region, trap, return_code, FALSE)
        /\ mems' = IF res.tag = "Ok"
                   THEN Append(mems,
                               [handle |-> res.handle, state |-> "Allowed",
                                pair |-> p, buffer |-> b,
                                traps |-> 0, released |-> "no"])
                   ELSE mems
        /\ last_call' = Call("allow", <<p[1], p[2], b>>,
                             <<Answered(trap, return_code)>>, res)
        /\ UNCHANGED <<slot, owner, subs, stack, captured>>

allow ==
    \E p \in Pairs, b \in Buffers \ Borrowed, return_code \in ReturnCodes :
      allow_call(p, b, return_code)

\* allow against the mock trap layer that tracks the allowed regions.
allow_tracked ==
    \E p \in Pairs, b \in Buffers \ Borrowed :
      allow_call(p, b, tracking_allow(region, allow_trap(p[1], p[2], b)))

command ==
    \E p \in Pairs, arg1 \in Words, arg2 \in Words, return_code \in ReturnCodes :
      LET trap == command_trap(p[1], p[2], arg1, arg2) IN
          /\ Running
          /\ last_call' = Call("command", <<p[1], p[2], arg1, arg2>>,
                               <<Answered(trap, return_code)>>,
                               command_result(return_code))
          /\ UNCHANGED <<slot, owner, region, subs, mems, stack, captured>>

command1_insecure ==
    \E p \in Pairs, arg \in Words, leaked \in Words, return_code \in ReturnCodes :
      LET trap == command1_trap(p[1], p[2], arg, leaked) IN
          /\ Running
          /\ last_call' = Call("command1_insecure", <<p[1], p[2], arg>>,
                               <<Answered(trap, return_code)>>,
                               command_result(return_code))
          /\ UNCHANGED <<slot, owner, region, subs, mems, stack, captured>>

\* Release of the live CallbackSubscription subs[i]: one clear-slot trap,
\* then the handle is consumed.
ReleaseSubscription(i, explicit) ==
    \E status \in ReleaseCodes, cleared \in BOOLEAN :
      LET trap == unregister_trap(subs[i].handle) IN
          /\ Running
          /\ slot' = kernel_subscribe(slot, trap, status, cleared)
          /\ owner' = [p \in Pairs |->
                         IF slot'[p] = NoRegistration THEN 0 ELSE owner[p]]
          /\ subs' = [subs EXCEPT
                        ![i].state = released_state(@, status),
                        ![i].callback = 0,
                        ![i].traps = @ + 1,
                        ![i].released = Released(status)]
          /\ last_call' = Call(IF explicit THEN "unregister" ELSE "drop_subscription",
                               <<i>>, <<Answered(trap, status)>>,
                               release_result(explicit, status))
          /\ UNCHANGED <<region, mems, stack, captured>>

unregister == \E i \in LiveSubs : ReleaseSubscription(i, TRUE)

drop_subscription == \E i \in LiveSubs : ReleaseSubscription(i, FALSE)

\* Release of the live SharedMemory mems[i]: one reclaim trap, then the
\* handle is consumed and the borrow of the buffer ends.
ReleaseSharedMemoryWith(i, explicit, status, cleared) ==
    LET trap == reclaim_trap(mems[i].handle) IN
        /\ Running
        /\ region' = kernel_allow(region, trap, status, cleared)
        /\ mems' = [mems EXCEPT
                      ![i].state = released_state(@, status),
                      ![i].traps = @ + 1,
                      ![i].released = Released(status)]
        /\ last_call' = Call(IF explicit THEN "reclaim" ELSE "drop_shared_memory",
                             <<i>>, <<Answered(trap, status)>>,
                             release_result(explicit, status))
        /\ UNCHANGED <<slot, owner, subs, stack, captured>>

ReleaseSharedMemory(i, explicit) ==
    \E status \in ReleaseCodes, cleared \in BOOLEAN :
      ReleaseSharedMemoryWith(i, explicit, status, cleared)

reclaim == \E i \in LiveMems : ReleaseSharedMemory(i, TRUE)

drop_shared_memory == \E i \in LiveMems : ReleaseSharedMemory(i, FALSE)

\* The releases against the mock trap layer that tracks the allowed regions.
ReleaseTracked(i, explicit) ==
    ReleaseSharedMemoryWith(i, explicit,
                            tracking_allow(region, reclaim_trap(mems[i].handle)),
                            FALSE)

reclaim_tracked == \E i \in LiveMems : ReleaseTracked(i, TRUE)

drop_shared_memory_tracked == \E i \in LiveMems : ReleaseTracked(i, FALSE)

\* raw::yieldk: the process enters the yield point and blocks.
yieldk ==
    /\ Running
    /\ Len(stack) < MaxDepth
    /\ stack' = Append(stack, [kind |-> "yield"])
    /\ last_call' = Call("yieldk", <<>>, <<>>, [tag |-> "Unit"])
    /\ UNCHANGED <<slot, owner, region, subs, mems, captured>>

\* raw::yieldk called by the main program, outside every callback.
yieldk_main == stack = <<>> /\ yieldk

\* The body of the trampoline c_callback::<CB>(arg1, arg2, arg3, data): the
\* callback object is rebuilt from the context word and call_rust runs on it.
c_callback_body(arg1, arg2, arg3, data) ==
    [callback |-> callback_at(data), args |-> <<arg1, arg2, arg3>>]

\* Invocations of callback object cb that have begun and not returned.
InProgress(cb) ==
    Cardinality({k \in DOMAIN stack :
                   IF stack[k].kind = "callback" THEN stack[k].callback = cb
                   ELSE FALSE})

RECURSIVE Sum(_, _)
Sum(f, S) == IF S = {} THEN 0 ELSE LET x == CHOOSE y \in S : TRUE IN f[x] + Sum(f, S \ {x})

\* Invocations the captured states count, with those still in progress.
Begun == Sum([cb \in Callbacks |-> captured[cb] + InProgress(cb)], Callbacks)

\* The body of call_rust of a callback that counts its invocations: it reads
\* its captured state on entry (`seen`), may yield, and stores the count on
\* return. With Fn behaviour the store is a fresh read-and-add on the cell;
\* through the exclusive borrow the build may store what it read on entry.
call_rust_exclusive(state, cb, seen, stale) ==
    IF cb = 0 THEN state ELSE [state EXCEPT ![cb] = seen + 1]

call_rust(state, cb, seen, stale) ==
    IF cb = 0 THEN state
    ELSE [state EXCEPT ![cb] = IF cb \in FnBehavior \/ ~stale
                                THEN @ + 1 ELSE seen + 1]

\* Inside a yield the kernel delivers an event of a registered slot: it
\* calls the slot's function pointer with three event words and the
\* context word it stored. The trampoline of a registration whose
\* subscription was released reads a callback object that may be gone:
\* what it finds there is any callback object or none.
dispatch ==
    \E p \in Pairs, e \in Events, found \in Callbacks \cup {0} :
      /\ InYield
      /\ Len(stack) < MaxDepth
      /\ slot[p].fn # NULL_FN
      /\ LET run == IF slot[p].fn # c_callback
                    THEN [callback |-> 0, args |-> e]
                    ELSE IF owner[p] \in LiveSubs
                    THEN c_callback_body(e[1], e[2], e[3], slot[p].data)
                    ELSE [callback |-> found, args |-> e]
         IN /\ found = run.callback
            /\ found # 0 => Begun < MaxCalls
            /\ stack' = Append(stack,
                               [kind |-> "callback", pair |-> p, by |-> owner[p],
                                fn |-> slot[p].fn, data |-> slot[p].data,
                                callback |-> run.callback, args |-> run.args,
                                seen |-> IF found = 0 THEN 0 ELSE captured[found]])
      /\ last_call' = Call("dispatch", <<>>, <<>>, [tag |-> "Unit"])
      /\ UNCHANGED <<slot, owner, region, subs, mems, captured>>

\* The callback body returns to the kernel, its captured state stored.
callback_return ==
    \E stale \in BOOLEAN :
      /\ stack # <<>>
      /\ stack[Len(stack)].kind = "callback"
      /\ stack' = SubSeq(stack, 1, Len(stack) - 1)
      /\ captured' = call_rust(captured, stack[Len(stack)].callback,
                               stack[Len(stack)].seen, stale)
      /\ last_call' = Call("callback_return", <<>>, <<>>, [tag |-> "Unit"])
      /\ UNCHANGED <<slot, owner, region, subs, mems>>

\* The kernel returns from the yield to the caller of yieldk.
yieldk_return ==
    /\ stack # <<>>
    /\ stack[Len(stack)].kind = "yield"
    /\ stack' = SubSeq(stack, 1, Len(stack) - 1)
    /\ last_call' = Call("yieldk_return", <<>>, <<>>, [tag |-> "Unit"])
    /\ UNCHANGED <<slot, owner, region, subs, mems, captured>>

\* -------------------------------------------------------- specifications
\* The subscription side of the layer: subscribe, subscribe_fn and the
\* CallbackSubscription releases.
NextSubscribe ==
    \/ subscribe
    \/ subscribe_fn_call
    \/ unregister
    \/ drop_subscription

SpecSubscribe == Init /\ [][NextSubscribe]_vars

\* The subscription side with the yield point of the main program and its
\* callback dispatch.
NextYield ==
    \/ subscribe
    \/ unregister
    \/ drop_subscription
    \/ yieldk_main
    \/ dispatch
    \/ callback_return
    \/ yieldk_return

SpecYield == Init /\ [][NextYield]_vars

\* Callbacks that yield: subscribe, and raw::yieldk called by the main
\* program and by callback bodies, with nested dispatch.
NextNested ==
    \/ subscribe
    \/ yieldk
    \/ dispatch
    \/ callback_return
    \/ yieldk_return

SpecNested == Init /\ [][NextNested]_vars

\* The shared-memory side of the layer: allow and the SharedMemory releases.
NextAllow ==
    \/ allow
    \/ reclaim
    \/ drop_shared_memory

SpecAllow == Init /\ [][NextAllow]_vars

\* The shared-memory side against the mock trap layer that tracks the
\* allowed regions.
NextTracked ==
    \/ allow_tracked
    \/ reclaim_tracked
    \/ drop_shared_memory_tracked

SpecTracked == Init /\ [][NextTracked]_vars

\* Both kinds of handle: their creation and their release.
NextHandles ==
    \/ subscribe
    \/ unregister
    \/ drop_subscription
    \/ NextAllow

SpecHandles == Init /\ [][NextHandles]_vars

\* The five primitive calls.
NextCalls ==
    \/ command
    \/ command1_insecure
    \/ subscribe
    \/ subscribe_fn_call
    \/ allow

SpecCalls == Init /\ [][NextCalls]_vars

\* The whole layer.
Next ==
    \/ NextYield
    \/ yieldk
    \/ NextAllow
    \/ command
    \/ command1_insecure

Spec == Init /\ [][Next]_vars

\* ------------------------------------------------------------ properties
IsCallbackHandle(h, d, n) ==
    h = [driver_number |-> d, subscribe_number |-> n]

\* C1: subscribe issues one raw subscribe trap and returns Ok with a
\* CallbackSubscription for exactly (driver_number, subscribe_number) if and
\* only if the trap returned 0; for a non-zero status it returns Err with
\* exactly that status, creates no handle, and the kernel slots are as before.
C1_SubscribeResult ==
    [][last_call'.op = "subscribe" =>
        LET d == last_call'.args[1]
            n == last_call'.args[2]
            status == last_call'.traps[1].status
            res == last_call'.result
        IN  /\ Len(last_call'.traps) = 1
            /\ (res.tag = "Ok") <=> (status = 0)
            /\ status = 0 =>
                 /\ res.tag = "Ok"
                 /\ IsCallbackHandle(res.handle, d, n)
                 /\ Len(subs') = Len(subs) + 1
                 /\ subs'[Len(subs')].handle = res.handle
                 /\ subs'[Len(subs')].state = "Subscribed"
            /\ status # 0 =>
                 /\ res = [tag |-> "Err", code |-> status]
                 /\ subs' = subs
                 /\ slot' = slot
    ]_vars

\* A subscribe that failed with a positive status while an earlier
\* subscription of the same pair is live and still registered.
C1_Witness ==
    /\ last_call.op = "subscribe"
    /\ last_call.result = [tag |-> "Err", code |-> 1]
    /\ \E i \in LiveSubs :
         /\ subs[i].pair = <<last_call.args[1], last_call.args[2]>>
         /\ slot[subs[i].pair].fn = c_callback

IsSharedMemory(h, d, n, b) ==
    h = [driver_number |-> d, allow_number |-> n, buffer_to_share |-> b]

\* C2: allow issues one raw allow trap and returns Ok with a SharedMemory for
\* exactly (driver_number, allow_number) and the buffer if and only if the
\* trap returned 0; for a non-zero status it returns Err with exactly that
\* status, constructs no handle, the kernel regions are as before and the
\* buffer is not borrowed.
C2_AllowResult ==
    [][last_call'.op = "allow" =>
        LET d == last_call'.args[1]
            n == last_call'.args[2]
            b == last_call'.args[3]
            status == last_call'.traps[1].status
            res == last_call'.result
        IN  /\ Len(last_call'.traps) = 1
            /\ (res.tag = "Ok") <=> (status = 0)
            /\ status = 0 =>
                 /\ res.tag = "Ok"
                 /\ IsSharedMemory(res.handle, d, n, b)
                 /\ Len(mems') = Len(mems) + 1
                 /\ mems'[Len(mems')].handle = res.handle
                 /\ mems'[Len(mems')].state = "Allowed"
                 /\ b \in Borrowed'
            /\ status # 0 =>
                 /\ res = [tag |-> "Err", code |-> status]
                 /\ mems' = mems
                 /\ region' = region
                 /\ b \notin Borrowed'
    ]_vars

\* allow(2, 3, buffer) failed with status -1: the buffer is free and the
\* kernel holds nothing for the pair.
C2_Witness ==
    /\ last_call.op = "allow"
    /\ last_call.args[1] = 2 /\ last_call.args[2] = 3
    /\ len(last_call.args[3]) > 0
    /\ last_call.result = [tag |-> "Err", code |-> -1]
    /\ last_call.args[3] \notin Borrowed
    /\ region[<<2, 3>>] = NoRegion

\* C3: at most one live CallbackSubscription exists for any
\* (driver_number, subscribe_number) pair.
C3_OneLiveSubscriptionPerPair ==
    \A i \in LiveSubs : \A j \in LiveSubs :
        subs[i].handle = subs[j].handle => i = j

\* C4: at most one live SharedMemory exists for any
\* (driver_number, allow_number) pair.
C4_OneLiveSharedMemoryPerPair ==
    \A i \in LiveMems : \A j \in LiveMems :
        (/\ mems[i].handle.driver_number = mems[j].handle.driver_number
         /\ mems[i].handle.allow_number = mems[j].handle.allow_number) => i = j

\* The kernel can write the bytes of buffer b through some allow slot.
KernelHasAccess(b) ==
    \E p \in Pairs : region[p].ptr = as_mut_ptr(b) /\ region[p].len > 0

\* C5 as claimed: the kernel has access to a buffer only while a live
\* SharedMemory for that buffer exists.
C5_AccessOnlyWhileLive ==
    \A b \in Buffers :
        KernelHasAccess(b) => \E i \in LiveMems : mems[i].buffer = b

\* C5 as amended: the kernel has access to a buffer only while a live
\* SharedMemory for that buffer exists, or after the reclaim trap of a
\* released SharedMemory for that buffer returned a non-zero status.
C5_AccessOnlyWhileLiveOrReclaimFailed ==
    \A b \in Buffers :
        KernelHasAccess(b) =>
            \/ \E i \in LiveMems : mems[i].buffer = b
            \/ \E i \in DOMAIN mems :
                 /\ mems[i].state = "Reclaimed"
                 /\ mems[i].buffer = b
                 /\ mems[i].released = "failed"

\* A SharedMemory of a non-empty buffer was released with status 0: the
\* buffer is free again and the kernel has no access to it.
C5_Witness ==
    \E i \in DOMAIN mems :
        /\ mems[i].state = "Reclaimed"
        /\ mems[i].released = "ok"
        /\ len(mems[i].buffer) > 0
        /\ mems[i].buffer \notin Borrowed
        /\ ~KernelHasAccess(mems[i].buffer)

\* C6: the release of a CallbackSubscription created by subscribe(d, n, cb)
\* issues exactly one trap, raw subscribe (d, n, null function, 0), and no
\* handle ever has a second clear-slot trap issued for it.
C6_OneClearSlotTrap ==
    /\ \A i \in DOMAIN subs :
         subs[i].traps = IF subs[i].state = "Subscribed" THEN 0 ELSE 1
    /\ last_call.op \in {"unregister", "drop_subscription"} =>
         LET i == last_call.args[1] IN
         /\ subs[i].state = "Unregistered"
         /\ Len(last_call.traps) = 1
         /\ last_call.traps[1].verb = "subscribe"
         /\ last_call.traps[1].driver = subs[i].pair[1]
         /\ last_call.traps[1].number = subs[i].pair[2]
         /\ last_call.traps[1].a3 = NULL_FN
         /\ last_call.traps[1].a4 = 0

\* The handle of subscribe(1, 0, cb) went out of scope: the trap was
\* subscribe(1, 0, NULL_FN, 0).
C6_Witness ==
    /\ last_call.op = "drop_subscription"
    /\ subs[last_call.args[1]].pair = <<1, 0>>
    /\ subs[last_call.args[1]].state = "Unregistered"
    /\ last_call.traps[1].driver = 1 /\ last_call.traps[1].number = 0

\* C7: the release of a SharedMemory created by allow(d, n, buffer), whatever
\* the buffer's length, issues exactly one trap, raw allow for (d, n) with
\* length 0, and no handle ever has a second reclaim trap issued for it.
C7_OneReclaimTrap ==
    /\ \A i \in DOMAIN mems :
         mems[i].traps = IF mems[i].state = "Allowed" THEN 0 ELSE 1
    /\ last_call.op \in {"reclaim", "drop_shared_memory"} =>
         LET i == last_call.args[1] IN
         /\ mems[i].state = "Reclaimed"
         /\ Len(last_call.traps) = 1
         /\ last_call.traps[1].verb = "allow"
         /\ last_call.traps[1].driver = mems[i].pair[1]
         /\ last_call.traps[1].number = mems[i].pair[2]
         /\ last_call.traps[1].a4 = 0

\* The handle of an allow of the ten-byte buffer for (2, 3) was reclaimed.
C7_Witness ==
    /\ last_call.op = "reclaim"
    /\ mems[last_call.args[1]].pair = <<2, 3>>
    /\ len(mems[last_call.args[1]].buffer) = 10
    /\ mems[last_call.args[1]].state = "Reclaimed"
    /\ last_call.traps[1].a4 = 0

\* C8: while a CallbackSubscription is live, the kernel slot of its pair
\* holds the trampoline and the context word its subscribe call registered.
C8_LiveHandleSlotRegistered ==
    \A i \in LiveSubs :
        slot[subs[i].pair] =
            [fn |-> c_callback, data |-> callback_addr(subs[i].callback)]

\* The step is a callback dispatch of the kernel, of the registration the
\* subscribe call of handle i stored (a later successful subscribe for the
\* pair stores another registration, with another owner).
DispatchOf(i) ==
    /\ Len(stack') = Len(stack) + 1
    /\ stack'[Len(stack')].kind = "callback"
    /\ stack'[Len(stack')].by = i

\* C9 as claimed: once a CallbackSubscription is released and no later
\* subscribe for its pair has succeeded, its registration is never
\* dispatched again.
C9_NoDispatchAfterRelease ==
    [][\A i \in DOMAIN subs :
          subs[i].state = "Unregistered" => ~DispatchOf(i)]_vars

\* C9 as amended: once a CallbackSubscription is released with the
\* unregister trap returning 0 and no later subscribe for its pair has
\* succeeded, its registration is never dispatched again.
C9_NoDispatchAfterClearedRelease ==
    [][\A i \in DOMAIN subs :
          (subs[i].state = "Unregistered" /\ subs[i].released = "ok")
              => ~DispatchOf(i)]_vars

\* A handle was released with status 0, and at a later yield point the
\* kernel dispatches the callback of another, live subscription.
C9_Witness ==
    /\ \E i \in DOMAIN subs :
         subs[i].state = "Unregistered" /\ subs[i].released = "ok"
    /\ stack # <<>>
    /\ stack[Len(stack)].kind = "callback"
    /\ stack[Len(stack)].by \in LiveSubs

\* C10: a release completes whatever status its trap returns: the handle is
\* consumed and stays so with no further trap, an explicit unregister or
\* reclaim returns the status, and a scope-exit release returns nothing.
C10_ReleaseAlwaysCompletes ==
    [][/\ last_call'.op \in {"unregister", "drop_subscription"} =>
            /\ subs'[last_call'.args[1]].state = "Unregistered"
            /\ last_call'.args[1] \notin LiveSubs'
            /\ last_call'.result =
                 IF last_call'.op = "unregister"
                 THEN [tag |-> "Raw", code |-> last_call'.traps[1].status]
                 ELSE [tag |-> "Unit"]
       /\ last_call'.op \in {"reclaim", "drop_shared_memory"} =>
            /\ mems'[last_call'.args[1]].state = "Reclaimed"
            /\ last_call'.args[1] \notin LiveMems'
            /\ last_call'.result =
                 IF last_call'.op = "reclaim"
                 THEN [tag |-> "Raw", code |-> last_call'.traps[1].status]
                 ELSE [tag |-> "Unit"]
       /\ \A i \in DOMAIN subs :
            subs[i].state = "Unregistered" =>
                subs'[i].state = "Unregistered" /\ subs'[i].traps = subs[i].traps
       /\ \A i \in DOMAIN mems :
            mems[i].state = "Reclaimed" =>
                mems'[i].state = "Reclaimed" /\ mems'[i].traps = mems[i].traps
    ]_vars

\* An explicit unregister returned a non-zero status and a scope-exit
\* reclaim met a non-zero status: both handles are consumed.
C10_Witness ==
    /\ \E i \in DOMAIN subs :
         subs[i].state = "Unregistered" /\ subs[i].released = "failed"
    /\ last_call.op = "drop_shared_memory"
    /\ last_call.traps[1].status # 0
    /\ last_call.result = [tag |-> "Unit"]
    /\ mems[last_call.args[1]].state = "Reclaimed"

ReturnOf(cb) ==
    /\ stack # <<>>
    /\ Len(stack') = Len(stack) - 1
    /\ stack[Len(stack)].kind = "callback"
    /\ stack[Len(stack)].fn = c_callback
    /\ stack[Len(stack)].callback = cb

\* An invocation in progress below the innermost frame neither resumes nor
\* ends: its frame stays as it is until every frame above it has returned.
OuterFramesKept ==
    \A k \in 1 .. (Len(stack) - 1) : k <= Len(stack') /\ stack'[k] = stack[k]

\* C12 as claimed: when a callback body yields and the kernel invokes the
\* same trampoline again, the inner invocation completes before the outer
\* one resumes, and each invocation that completes, inner or outer, adds
\* itself to the callback's captured state: after both the state reflects
\* both, for every callback.
C12_NestedDispatchKeepsState ==
    [][/\ OuterFramesKept
       /\ \A cb \in Callbacks :
            ReturnOf(cb) =>
                captured' = [captured EXCEPT ![cb] = captured[cb] + 1]
    ]_vars

\* C12 as amended: the same, for a callback with Fn behaviour (its captured
\* state is in a re-entrant-safe cell).
C12_NestedDispatchKeepsFnState ==
    [][/\ OuterFramesKept
       /\ \A cb \in FnBehavior :
            ReturnOf(cb) =>
                captured' = [captured EXCEPT ![cb] = captured[cb] + 1]
    ]_vars

\* The outer invocation of a callback with Fn behaviour has resumed from
\* its yield, during which a nested invocation of the same callback ran to
\* completion: the captured state counts the inner invocation.
C12_Witness ==
    /\ Len(stack) = 2
    /\ stack[2].kind = "callback"
    /\ stack[2].fn = c_callback
    /\ stack[2].callback \in FnBehavior
    /\ stack[2].seen < captured[stack[2].callback]
    /\ last_call.op = "yieldk_return"

\* C13: against a kernel that tracks the currently allowed regions and
\* rejects overlapping allows, the release of a SharedMemory leaves the
\* kernel no access to its buffer, and a later allow of a buffer whose
\* earlier SharedMemory was released, for the same or a different pair, is
\* accepted: it returns Ok with a handle for that pair and buffer, and the
\* kernel holds the buffer's bytes again.
C13_AllowAfterReclaim ==
    [][/\ last_call'.op \in {"reclaim", "drop_shared_memory"} =>
            LET released == mems[last_call'.args[1]].buffer
            IN  \A p \in Pairs :
                  region'[p].len > 0 => region'[p].ptr # as_mut_ptr(released)
       /\ (/\ last_call'.op = "allow"
           /\ \E i \in DOMAIN mems :
                /\ mems[i].state = "Reclaimed"
                /\ mems[i].buffer = last_call'.args[3])
            => LET d == last_call'.args[1]
                   n == last_call'.args[2]
                   b == last_call'.args[3]
               IN  /\ last_call'.traps[1].status = 0
                   /\ last_call'.result.tag = "Ok"
                   /\ IsSharedMemory(last_call'.result.handle, d, n, b)
                   /\ len(b) > 0 =>
                        region'[<<d, n>>] = [ptr |-> as_mut_ptr(b), len |-> len(b)]
    ]_vars

\* The ten-byte buffer was allowed for one pair, reclaimed, and allowed
\* again for the other pair: the second allow returned Ok.
C13_Witness ==
    /\ last_call.op = "allow"
    /\ last_call.result.tag = "Ok"
    /\ len(last_call.args[3]) > 0
    /\ KernelHasAccess(last_call.args[3])
    /\ \E i \in DOMAIN mems :
         /\ mems[i].state = "Reclaimed"
         /\ mems[i].buffer = last_call.args[3]
         /\ mems[i].pair # <<last_call.args[1], last_call.args[2]>>

\* C14: command and command1_insecure return exactly the status the raw
\* command / command1 trap returned, zero, positive or negative, not wrapped
\* in a result; they create no handle and leave every CallbackSubscription
\* and SharedMemory, and the buffers they borrow, as they were.
C14_CommandReturnsRawStatus ==
    [][last_call'.op \in {"command", "command1_insecure"} =>
        /\ Len(last_call'.traps) = 1
        /\ last_call'.traps[1].verb =
             (IF last_call'.op = "command" THEN "command" ELSE "command1")
        /\ last_call'.traps[1].status \in ReturnCodes
        /\ last_call'.result =
             [tag |-> "Raw", code |-> last_call'.traps[1].status]
        /\ subs' = subs
        /\ mems' = mems
        /\ Borrowed' = Borrowed
    ]_vars

\* With a live CallbackSubscription and a live SharedMemory, command
\* returned the positive status of its trap.
C14_Witness ==
    /\ last_call.op = "command"
    /\ last_call.traps[1].status = 1
    /\ last_call.result = [tag |-> "Raw", code |-> 1]
    /\ LiveSubs # {}
    /\ LiveMems # {}

\* The step is the kernel invoking the trampoline subscribe registered for a
\* callback object that the live subscription i still borrows.
TrampolineInvoked(i) ==
    /\ Len(stack') = Len(stack) + 1
    /\ stack'[Len(stack')].kind = "callback"
    /\ stack'[Len(stack')].fn = c_callback
    /\ stack'[Len(stack')].by = i

\* C15: when the kernel invokes the trampoline registered by subscribe for
\* callback object cb, with three event words and the context word stored
\* at registration (the address of cb), the step begins exactly one
\* invocation, of cb's call_rust, with the three event words unchanged and
\* in order, and begins no invocation of any other callback object.
C15_TrampolineCallsItsCallback ==
    [][\A i \in LiveSubs :
          TrampolineInvoked(i) =>
              LET cb == subs[i].callback
                  frame == stack'[Len(stack')]
              IN  /\ frame.data = callback_addr(cb)
                  /\ frame.data = slot[frame.pair].data
                  /\ frame.callback = cb
                  /\ frame.args \in Events
                  /\ stack' = Append(stack, frame)
                  /\ InProgress(cb)' = InProgress(cb) + 1
                  /\ \A other \in Callbacks \ {cb} :
                       InProgress(other)' = InProgress(other)
    ]_vars

\* Two subscriptions with different callback objects are live and the
\* trampoline runs call_rust of the second object only.
C15_Witness ==
    /\ stack # <<>>
    /\ stack[Len(stack)].kind = "callback"
    /\ stack[Len(stack)].fn = c_callback
    /\ stack[Len(stack)].by \in LiveSubs
    /\ stack[Len(stack)].callback = 2
    /\ stack[Len(stack)].args = <<7, 8, 9>>
    /\ InProgress(2) = 1
    /\ InProgress(1) = 0
    /\ \E j \in LiveSubs : subs[j].callback = 1

\* The trap of the step is the one trap of the call: its verb, the caller's
\* driver number and number as passed, and the two remaining words.
OneTrap(verb, a3, a4) ==
    /\ Len(last_call'.traps) = 1
    /\ last_call'.traps[1].verb = verb
    /\ last_call'.traps[1].driver = last_call'.args[1]
    /\ last_call'.traps[1].number = last_call'.args[2]
    /\ last_call'.traps[1].a3 = a3
    /\ last_call'.traps[1].a4 = a4

\* C16: each call of command, command1_insecure, subscribe, subscribe_fn and
\* allow issues exactly one raw trap of its verb, whatever status the trap
\* returns, with the caller's driver number and number unchanged (no value
\* is rejected before the trap); command carries its two arguments,
\* command1 its one argument, subscribe the trampoline and the address of
\* the callback object, subscribe_fn the caller's function and context word,
\* allow the buffer's start address and exactly its length.
C16_OneTrapPerCall ==
    [][/\ last_call'.op = "command" =>
            OneTrap("command", last_call'.args[3], last_call'.args[4])
       /\ last_call'.op = "command1_insecure" =>
            OneTrap("command1", last_call'.args[3], last_call'.traps[1].a4)
       /\ last_call'.op = "subscribe" =>
            OneTrap("subscribe", c_callback, callback_addr(last_call'.args[3]))
       /\ last_call'.op = "subscribe_fn" =>
            OneTrap("subscribe", user_fn, last_call'.args[3])
       /\ last_call'.op = "allow" =>
            OneTrap("allow", as_mut_ptr(last_call'.args[3]),
                    len(last_call'.args[3]))
    ]_vars

\* allow(2, 3, the ten-byte buffer) was answered -1: its one trap carried
\* the pair, the buffer's address and the length 10.
C16_Witness ==
    /\ last_call.op = "allow"
    /\ last_call.args = <<2, 3, 2>>
    /\ last_call.result = [tag |-> "Err", code |-> -1]
    /\ last_call.traps =
         <<[verb |-> "allow", driver |-> 2, number |-> 3,
            a3 |-> as_mut_ptr(2), a4 |-> 10, status |-> -1]>>

LiveSubsOf(q) == {i \in LiveSubs : subs[i].pair = q}
LiveMemsOf(q) == {i \in LiveMems : mems[i].pair = q}

\* The step leaves every pair other than p as it was: its kernel
\* registration, its allowed region, and its live handles.
OtherPairsKept(p) ==
    \A q \in Pairs \ {p} :
        /\ slot'[q] = slot[q]
        /\ region'[q] = region[q]
        /\ LiveSubsOf(q)' = LiveSubsOf(q)
        /\ LiveMemsOf(q)' = LiveMemsOf(q)
        /\ \A i \in LiveSubsOf(q) : subs'[i] = subs[i]
        /\ \A i \in LiveMemsOf(q) : mems'[i] = mems[i]

\* C17: a subscribe call, an allow call or a handle release for pair (d, n)
\* leaves the kernel registration, the allowed region and the live handles
\* of every other pair unchanged; a subscribe changes no allowed region and
\* no SharedMemory, an allow no registration and no CallbackSubscription.
C17_OtherPairsUnchanged ==
    [][/\ last_call'.op = "subscribe" =>
            /\ OtherPairsKept(<<last_call'.args[1], last_call'.args[2]>>)
            /\ region' = region
            /\ mems' = mems
       /\ last_call'.op = "allow" =>
            /\ OtherPairsKept(<<last_call'.args[1], last_call'.args[2]>>)
            /\ slot' = slot
            /\ subs' = subs
       /\ last_call'.op \in {"unregister", "drop_subscription"} =>
            OtherPairsKept(subs[last_call'.args[1]].pair)
       /\ last_call'.op \in {"reclaim", "drop_shared_memory"} =>
            OtherPairsKept(mems[last_call'.args[1]].pair)
    ]_vars

\* The subscription of (1, 0) was released while the subscription of
\* (2, 3) is live and registered.
C17_Witness ==
    /\ last_call.op = "drop_subscription"
    /\ subs[last_call.args[1]].pair = <<1, 0>>
    /\ slot[<<1, 0>>] = NoRegistration
    /\ slot[<<2, 3>>].fn = c_callback
    /\ \E i \in LiveSubs :
         /\ subs[i].pair = <<2, 3>>
         /\ slot[<<2, 3>>].data = callback_addr(subs[i].callback)

\* C18: allow of a zero-length buffer issues its raw allow trap with length
\* 0, the length a reclaim trap carries, and when the trap returns 0 it
\* returns Ok with a live SharedMemory for (driver_number, allow_number)
\* that borrows the buffer; the release of that handle issues one further
\* allow trap for the pair with length 0, the only reclaim trap of the
\* handle.
C18_ZeroLengthAllow ==
    [][/\ (last_call'.op = "allow" /\ len(last_call'.args[3]) = 0) =>
            /\ Len(last_call'.traps) = 1
            /\ last_call'.traps[1].verb = "allow"
            /\ last_call'.traps[1].a4 = 0
            /\ last_call'.traps[1].a4 =
                 reclaim_trap(SharedMemory_new(last_call'.args[1],
                                               last_call'.args[2],
                                               last_call'.args[3])).a4
            /\ last_call'.traps[1].status = 0 =>
                 /\ last_call'.result.tag = "Ok"
                 /\ IsSharedMemory(last_call'.result.handle, last_call'.args[1],
                                   last_call'.args[2], last_call'.args[3])
                 /\ mems' = Append(mems, mems'[Len(mems')])
                 /\ mems'[Len(mems')].handle = last_call'.result.handle
                 /\ Len(mems') \in LiveMems'
                 /\ last_call'.args[3] \in Borrowed'
       /\ (/\ last_call'.op \in {"reclaim", "drop_shared_memory"}
           /\ len(mems[last_call'.args[1]].buffer) = 0) =>
            LET h == mems[last_call'.args[1]] IN
            /\ h.state = "Allowed"
            /\ h.traps = 0
            /\ Len(last_call'.traps) = 1
            /\ last_call'.traps[1].verb = "allow"
            /\ last_call'.traps[1].driver = h.handle.driver_number
            /\ last_call'.traps[1].number = h.handle.allow_number
            /\ <<h.handle.driver_number, h.handle.allow_number>> = h.pair
            /\ last_call'.traps[1].a4 = 0
            /\ mems'[last_call'.args[1]].traps = 1
    ]_vars

\* The SharedMemory of allow(1, 0, the empty buffer) was live and has been
\* released: its reclaim trap was allow(1, 0, .., 0).
C18_Witness ==
    /\ last_call.op \in {"reclaim", "drop_shared_memory"}
    /\ len(mems[last_call.args[1]].buffer) = 0
    /\ mems[last_call.args[1]].pair = <<1, 0>>
    /\ mems[last_call.args[1]].state = "Reclaimed"
    /\ mems[last_call.args[1]].traps = 1
    /\ last_call.traps[1].driver = 1
    /\ last_call.traps[1].number = 0
    /\ last_call.traps[1].a4 = 0
====
